---- MODULE Spec2Model ----
(***************************************************************************)
(* SPI NOR flash driver (drivers/mtd/nor/spi_nor.c): the device            *)
(* descriptor nor_dev, the flash behind the transport, and the driver's    *)
(* functions as a state machine.  Every transport transaction is one step  *)
(* whose outcome (0 or a negative error) is chosen by the transport; the   *)
(* code between two transactions belongs to the step of the transaction    *)
(* that precedes it or to the entry step of its function.                  *)
(***************************************************************************)
EXTENDS Integers, Sequences, FiniteSets, TLC

(* ------------------------------------------------------------------ *)
(* Program constants (spi_nor.c lines 16-29)                           *)
(* ------------------------------------------------------------------ *)
SR_WIP == 1
CR_QUAD_EN_SPAN == 2
SR_QUAD_EN_MX == 64
FSR_READY == 128
SPANSION_ID == 1
MACRONIX_ID == 194
MICRON_ID == 44
BANK_SIZE == 16777216
SPI_READY_TIMEOUT_US == 40000
SPI_NOR_SRST_US == 100

(* Opcodes of drivers/spi_nor.h and error numbers of errno.h: headers   *)
(* the driver includes.                                                 *)
SPI_NOR_OP_WREN == 6
SPI_NOR_OP_WRSR == 1
SPI_NOR_OP_READ_ID == 159
SPI_NOR_OP_READ_CR == 53
SPI_NOR_OP_READ_SR == 5
SPI_NOR_OP_READ_FSR == 112
SPINOR_OP_BRWR == 23
SPINOR_OP_BRRD == 22
SPINOR_OP_RDEAR == 200
SPINOR_OP_WREAR == 197
SPI_NOR_OP_READ == 3
SPI_NOR_OP_WR_CR2 == 114
SPI_NOR_OP_SRSTEN == 102
SPI_NOR_OP_SRST == 153
EIO == 5
ENXIO == 6
EINVAL == 22
EOPNOTSUPP == 95
ETIMEDOUT == 110
SPI_NOR_REG_MXIC_CR2_MODE == 0
SPI_NOR_REG_MXIC_OPI_DTR_EN == 2
SPI_NOR_REG_MXIC_CR2_DC == 768
SPI_NOR_REG_MXIC_DC_20 == 0

(* ------------------------------------------------------------------ *)
(* Bounds of the model                                                 *)
(* ------------------------------------------------------------------ *)
\* number of bank windows of the address space the inputs are drawn from
MaxBanks == 3
\* duration of one poll of the readiness loop, in microseconds
PollUS == 20000

MiB == BANK_SIZE \div 16

(* ------------------------------------------------------------------ *)
(* Integer helpers: the C operators on unsigned values                 *)
(* ------------------------------------------------------------------ *)
\* (x & b) != 0 for a single-bit mask b
HasBit(x, b) == (x \div b) % 2 = 1
\* x | b for a single-bit mask b
OrBit(x, b) == IF HasBit(x, b) THEN x ELSE x + b
\* x & ~b for a single-bit mask b
ClearBit(x, b) == IF HasBit(x, b) THEN x - b ELSE x
\* MIN(a, b) of lib/utils_def.h
MIN(a, b) == IF a < b THEN a ELSE b

(* ------------------------------------------------------------------ *)
(* Inputs                                                              *)
(* ------------------------------------------------------------------ *)
\* results of one transport transaction: success or a negative error
TransportErrors == {-EIO, -ENXIO}
Results == {0} \cup TransportErrors

\* durations of one transaction of the readiness loop
Durations == {PollUS, 3 * PollUS}
\* the time from the return of a poll to the next read of the counter: none,
\* or long (the caller was preempted)
Delays == {0, 3 * PollUS}

\* read(offset, length): offsets at the start, near the end and at the last
\* byte of every bank window; lengths that stay in, end at and cross windows
Offsets == {b * BANK_SIZE + d : b \in 0..(MaxBanks - 1), d \in {0, 15 * MiB, BANK_SIZE - 1}}
Lengths == {0, 1, 2, MiB, 4 * MiB, BANK_SIZE, BANK_SIZE + 1, 2 * BANK_SIZE}
ReadArgs == {a \in Offsets \X Lengths : a[1] + a[2] <= MaxBanks * BANK_SIZE}

\* the read template plat_get_nor_data may leave in nor_dev: init's default,
\* a quad read, an octal DTR read with an inverted and with a repeated second
\* opcode byte, a 2-byte opcode on one line, and a 2-byte opcode with 4 data
\* lines
SingleMode == [cmd_opcode |-> SPI_NOR_OP_READ, cmd_nbytes |-> 1, cmd_buswidth |-> 1,
               addr_nbytes |-> 3, data_buswidth |-> 1]
QuadMode == [cmd_opcode |-> 107, cmd_nbytes |-> 1, cmd_buswidth |-> 1,
             addr_nbytes |-> 3, data_buswidth |-> 4]
OctalModes ==
    { [cmd_opcode |-> 60945, cmd_nbytes |-> 2, cmd_buswidth |-> 8,
       addr_nbytes |-> 4, data_buswidth |-> 8],
      [cmd_opcode |-> 61166, cmd_nbytes |-> 2, cmd_buswidth |-> 8,
       addr_nbytes |-> 4, data_buswidth |-> 8],
      [cmd_opcode |-> 60945, cmd_nbytes |-> 2, cmd_buswidth |-> 1,
       addr_nbytes |-> 4, data_buswidth |-> 1],
      [cmd_opcode |-> 60945, cmd_nbytes |-> 2, cmd_buswidth |-> 8,
       addr_nbytes |-> 4, data_buswidth |-> 4] }
\* a 1-byte opcode sent on 8 lines
OctalStrMode == [cmd_opcode |-> 236, cmd_nbytes |-> 1, cmd_buswidth |-> 8,
                 addr_nbytes |-> 4, data_buswidth |-> 8]
PlatSizes == {(MaxBanks - 1) * BANK_SIZE}

\* what plat_get_nor_data supplies on the boards of the bank reader: the
\* default read command, with and without bank switching
BankBoards == [hook_ret : {0}, size : PlatSizes, flags : SUBSET {"USE_BANK"},
               mode : {SingleMode}]
\* and on the boards of the capability sequences: USE_FSR is read by the
\* readiness poll only, which only a quad enable reaches
CapBoards ==
    [hook_ret : {0}, size : PlatSizes, flags : SUBSET {"USE_FSR", "USE_BANK"},
     mode : {QuadMode}]
    \cup [hook_ret : {0}, size : PlatSizes, flags : SUBSET {"USE_BANK"},
          mode : {SingleMode, OctalStrMode} \cup OctalModes]
NoPlatData == [hook_ret |-> -1, size |-> 0, flags |-> {},
               mode |-> [cmd_opcode |-> 0, cmd_nbytes |-> 0, cmd_buswidth |-> 0,
                         addr_nbytes |-> 0, data_buswidth |-> 0]]

\* the flash: its JEDEC manufacturer id, whether it keeps a quad-enable bit
\* written to it, and the bank its bank register holds at driver start
DeviceIds == {SPANSION_ID, MACRONIX_ID, MICRON_ID}

(* ------------------------------------------------------------------ *)
(* State                                                               *)
(* ------------------------------------------------------------------ *)
VARIABLES
    nor_dev,    \* static struct nor_device nor_dev
    dev,        \* the flash behind the transport
    stack,      \* call stack: the position in every active function
    ret,        \* value returned by the function that returned last
    loc,        \* the local variables of the active functions
    out,        \* the caller's output parameters
    log,        \* transactions issued by the running driver call, in order
    call,       \* the running (or just returned) driver call and its arguments
    now,        \* time in microseconds since the running call started
    cb_calls,   \* number of spi_nor_clean_bar() calls made by the running call
    polls,      \* the polls of the running spi_nor_wait_ready(), in order
    inited,     \* the last spi_nor_init() returned 0
    board       \* what the platform's plat_get_nor_data() supplies

vars == <<nor_dev, dev, stack, ret, loc, out, log, call, now, cb_calls, polls, inited, board>>

ReadOp0 == [cmd_opcode |-> 0, cmd_nbytes |-> 0, cmd_buswidth |-> 0,
            addr_nbytes |-> 0, addr_buswidth |-> 0, addr_val |-> 0,
            data_buswidth |-> 0, data_nbytes |-> 0]

\* nor_dev is a zero-initialised static object
NorDev0 == [flags |-> {}, size |-> 0, selected_bank |-> 0,
            bank_read_cmd |-> 0, bank_write_cmd |-> 0, read_op |-> ReadOp0]

Loc0 == [wb_offset |-> 0, wb_bank |-> 0, length |-> 0, rd_ret |-> 0, mark |-> -1,
         sr |-> 0, cr |-> 0, fsr |-> 0, id |-> 0, timeout |-> 0,
         init_ret |-> 0, repeat |-> FALSE, poll_t |-> 0, poll_sr |-> 0]

Out0 == [length_read |-> 0, size |-> 0, size_set |-> FALSE, erase_size_set |-> FALSE]

NoCall == [fn |-> "none", offset |-> 0, offset2 |-> 0, length |-> 0, plat |-> NoPlatData,
           bank0 |-> 0, devbank0 |-> 0]

USE_BANK == "USE_BANK" \in nor_dev.flags
USE_FSR == "USE_FSR" \in nor_dev.flags

(* ------------------------------------------------------------------ *)
(* The transport and the flash                                         *)
(* ------------------------------------------------------------------ *)
\* the operation spi_nor_reg() builds: 1-byte opcode, 1 line, len data bytes
spi_nor_reg(reg, val, len, dir) ==
    [kind |-> "exec", opcode |-> reg, cmd_nbytes |-> 1, cmd_buswidth |-> 1,
     addr_nbytes |-> 0, addr |-> 0, dir |-> dir, nbytes |-> len, val |-> val]

BankWriteOps == {SPINOR_OP_BRWR, SPINOR_OP_WREAR}
BankReadOps == {SPINOR_OP_BRRD, SPINOR_OP_RDEAR}

\* the flash after a transaction that succeeded
DevAfter(d, op) ==
    IF op.kind # "exec" \/ op.dir # "out" \/ op.cmd_nbytes # 1 THEN d
    ELSE IF op.opcode \in BankWriteOps /\ op.nbytes = 1
         THEN [d EXCEPT !.bank = op.val]
    ELSE IF op.opcode = SPI_NOR_OP_WRSR /\ op.nbytes = 1 /\ d.quad_ok
         THEN [d EXCEPT !.sr = ClearBit(op.val % 256, SR_WIP)]
    ELSE IF op.opcode = SPI_NOR_OP_WRSR /\ op.nbytes = 2 /\ d.quad_ok
         THEN [d EXCEPT !.sr = ClearBit(op.val % 256, SR_WIP),
                        !.cr = op.val \div 256]
    ELSE d

\* the byte a register read that succeeded returns
DevRead(d, reg) ==
    IF reg = SPI_NOR_OP_READ_ID THEN d.id
    ELSE IF reg = SPI_NOR_OP_READ_SR THEN d.sr + (IF d.wip THEN SR_WIP ELSE 0)
    ELSE IF reg = SPI_NOR_OP_READ_CR THEN d.cr
    ELSE IF reg = SPI_NOR_OP_READ_FSR THEN (IF d.fsr_ready THEN FSR_READY ELSE 0)
    ELSE IF reg \in BankReadOps THEN d.bank
    ELSE 0

\* one entry of the log: the operation, its result, the byte read (if any),
\* the bank register of the flash when it was issued, and the time
Entry(op, r, rval) ==
    [kind |-> op.kind, opcode |-> op.opcode, cmd_nbytes |-> op.cmd_nbytes,
     cmd_buswidth |-> op.cmd_buswidth, addr |-> op.addr, dir |-> op.dir,
     nbytes |-> op.nbytes, val |-> op.val, ret |-> r, rval |-> rval,
     devbank |-> dev.bank, t |-> now]

\* spi_mem_exec_op(op) / spi_mem_dirmap_read(op) with result r
Transact(op, r) ==
    /\ log' = Append(log, Entry(op, r, IF r = 0 /\ op.dir = "in" /\ op.kind = "exec"
                                       THEN DevRead(dev, op.opcode) ELSE 0))
    /\ dev' = IF r = 0 THEN DevAfter(dev, op) ELSE dev

(* ------------------------------------------------------------------ *)
(* Control                                                             *)
(* ------------------------------------------------------------------ *)
At(l) == stack # <<>> /\ Head(stack) = l
Goto(l) == stack' = <<l>> \o Tail(stack)
Return(v) == stack' = Tail(stack) /\ ret' = v
CallFn(entry, cont) == stack' = <<entry, cont>> \o Tail(stack)

\* the state after construction: nor_dev zeroed, the flash idle with its
\* quad bits clear and any bank selected (the bank register survives a warm
\* restart of the driver)
Start(boards, quad_oks) ==
    /\ nor_dev = NorDev0
    /\ dev \in [id : DeviceIds, bank : 0..(MaxBanks - 1), sr : {0}, cr : {0},
                wip : {FALSE}, fsr_ready : {TRUE}, quad_ok : quad_oks]
    /\ stack = <<"idle">>
    /\ ret = 0
    /\ loc = Loc0
    /\ out = Out0
    /\ log = <<>>
    /\ call = NoCall
    /\ now = 0
    /\ cb_calls = 0
    /\ polls = <<>>
    /\ inited = FALSE
    /\ board \in boards

(* ------------------------------------------------------------------ *)
(* Bank register: spi_nor_write_bar, spi_nor_clean_bar, spi_nor_read_bar *)
(* ------------------------------------------------------------------ *)
\* uint8_t selected_bank = offset / BANK_SIZE
TargetBank(offset) == (offset \div BANK_SIZE) % 256

\* spi_nor_write_bar(offset), lines 281-286: nothing to do when the bank of
\* offset is the cached one
spi_nor_write_bar_enter ==
    /\ At("write_bar")
    /\ loc' = [loc EXCEPT !.wb_bank = TargetBank(loc.wb_offset)]
    /\ IF TargetBank(loc.wb_offset) = nor_dev.selected_bank
       THEN Return(0)
       ELSE Goto("write_bar_wren") /\ UNCHANGED ret
    /\ UNCHANGED <<nor_dev, dev, out, log, call, now, cb_calls, polls, inited, board>>

\* a write_bar that updates the cache before its transactions
spi_nor_write_bar_wren_EarlyCache ==
    /\ At("write_bar_wren")
    /\ nor_dev' = [nor_dev EXCEPT !.selected_bank = loc.wb_bank]
    /\ \E r \in Results :
        /\ Transact(spi_nor_reg(SPI_NOR_OP_WREN, 0, 0, "out"), r)
        /\ IF r # 0 THEN Return(r) ELSE Goto("write_bar_reg") /\ UNCHANGED ret
    /\ UNCHANGED <<loc, out, call, now, cb_calls, polls, inited, board>>

\* lines 288-291: spi_nor_write_en()
spi_nor_write_bar_wren ==
    /\ At("write_bar_wren")
    /\ \E r \in Results :
        /\ Transact(spi_nor_reg(SPI_NOR_OP_WREN, 0, 0, "out"), r)
        /\ IF r # 0 THEN Return(r) ELSE Goto("write_bar_reg") /\ UNCHANGED ret
    /\ UNCHANGED <<nor_dev, loc, out, call, now, cb_calls, polls, inited, board>>

\* a bank-select register write that forgets to update the cache
spi_nor_write_bar_reg_NoCache ==
    /\ At("write_bar_reg")
    /\ \E r \in Results :
        /\ Transact(spi_nor_reg(nor_dev.bank_write_cmd, loc.wb_bank, 1, "out"), r)
        /\ Return(r)
    /\ UNCHANGED <<nor_dev, loc, out, call, now, cb_calls, polls, inited, board>>

\* lines 293-301: the bank-select register write, then the cache update
spi_nor_write_bar_reg ==
    /\ At("write_bar_reg")
    /\ \E r \in Results :
        /\ Transact(spi_nor_reg(nor_dev.bank_write_cmd, loc.wb_bank, 1, "out"), r)
        /\ nor_dev' = IF r # 0 THEN nor_dev
                      ELSE [nor_dev EXCEPT !.selected_bank = loc.wb_bank]
        /\ Return(r)
    /\ UNCHANGED <<loc, out, call, now, cb_calls, polls, inited, board>>

\* a clean_bar without the early return on a cached bank 0
spi_nor_clean_bar_enter_NoShortcut ==
    /\ At("clean_bar")
    /\ cb_calls' = cb_calls + 1
    /\ nor_dev' = [nor_dev EXCEPT !.selected_bank = 0]
    /\ Goto("clean_bar_wren")
    /\ UNCHANGED <<dev, ret, loc, out, log, call, now, polls, inited, board>>

\* spi_nor_clean_bar(), lines 264-268: the cache is zeroed before any
\* transaction is issued
spi_nor_clean_bar_enter ==
    /\ At("clean_bar")
    /\ cb_calls' = cb_calls + 1
    /\ IF nor_dev.selected_bank = 0
       THEN Return(0) /\ UNCHANGED nor_dev
       ELSE /\ nor_dev' = [nor_dev EXCEPT !.selected_bank = 0]
            /\ Goto("clean_bar_wren")
            /\ UNCHANGED ret
    /\ UNCHANGED <<dev, loc, out, log, call, now, polls, inited, board>>

\* lines 270-273: spi_nor_write_en()
spi_nor_clean_bar_wren ==
    /\ At("clean_bar_wren")
    /\ \E r \in Results :
        /\ Transact(spi_nor_reg(SPI_NOR_OP_WREN, 0, 0, "out"), r)
        /\ IF r # 0 THEN Return(r) ELSE Goto("clean_bar_reg") /\ UNCHANGED ret
    /\ UNCHANGED <<nor_dev, loc, out, call, now, cb_calls, polls, inited, board>>

\* lines 275-276: the bank-select register write of nor_dev.selected_bank
spi_nor_clean_bar_reg ==
    /\ At("clean_bar_reg")
    /\ \E r \in Results :
        /\ Transact(spi_nor_reg(nor_dev.bank_write_cmd, nor_dev.selected_bank, 1, "out"), r)
        /\ Return(r)
    /\ UNCHANGED <<nor_dev, loc, out, call, now, cb_calls, polls, inited, board>>

\* spi_nor_read_bar(), lines 306-317: the cache takes the byte read
spi_nor_read_bar ==
    /\ At("read_bar")
    /\ \E r \in Results :
        /\ Transact(spi_nor_reg(nor_dev.bank_read_cmd, 0, 1, "in"), r)
        /\ nor_dev' = IF r # 0 THEN nor_dev
                      ELSE [nor_dev EXCEPT !.selected_bank = DevRead(dev, nor_dev.bank_read_cmd)]
        /\ Return(r)
    /\ UNCHANGED <<loc, out, call, now, cb_calls, polls, inited, board>>

(* ------------------------------------------------------------------ *)
(* spi_nor_read                                                        *)
(* ------------------------------------------------------------------ *)
\* a clamp to nothing
RemainLen_Zero(bank, addr) == 0

\* a clamp that is off by one: the window is taken one byte too long
RemainLen_OffByOne(bank, addr) == (BANK_SIZE * (bank + 1)) - addr + 1

\* remain_len = (BANK_SIZE * (nor_dev.selected_bank + 1)) - addr.val
RemainLen(bank, addr) == (BANK_SIZE * (bank + 1)) - addr

\* the direct-mapped read of the read template
DirmapOp(rop) ==
    [kind |-> "dirmap", opcode |-> rop.cmd_opcode, cmd_nbytes |-> rop.cmd_nbytes,
     cmd_buswidth |-> rop.cmd_buswidth, addr_nbytes |-> rop.addr_nbytes,
     addr |-> rop.addr_val, dir |-> "in", nbytes |-> rop.data_nbytes, val |-> 0]

\* lines 332-334, 343 and 358-365: the loop test; with banking the bank of
\* the current address is selected first, and the bank is cleaned at the end
spi_nor_read_loop ==
    /\ At("read_loop")
    /\ IF loc.length # 0
       THEN IF USE_BANK
            THEN /\ CallFn("write_bar", "read_bar_selected")
                 /\ loc' = [loc EXCEPT !.wb_offset = nor_dev.read_op.addr_val]
                 /\ UNCHANGED <<nor_dev, ret>>
            ELSE /\ Goto("read_dirmap")
                 /\ nor_dev' = [nor_dev EXCEPT !.read_op.data_nbytes = loc.length]
                 /\ UNCHANGED <<loc, ret>>
       ELSE IF USE_BANK
            THEN CallFn("clean_bar", "read_cleaned") /\ UNCHANGED <<nor_dev, loc, ret>>
            ELSE Return(0) /\ UNCHANGED <<nor_dev, loc>>
    /\ UNCHANGED <<dev, out, log, call, now, cb_calls, polls, inited, board>>

\* lines 335-341: write_bar's result, then the clamp to the bank window
spi_nor_read_clamp ==
    /\ At("read_bar_selected")
    /\ IF ret # 0
       THEN Return(ret) /\ UNCHANGED nor_dev
       ELSE /\ nor_dev' = [nor_dev EXCEPT !.read_op.data_nbytes =
                    MIN(loc.length, RemainLen(nor_dev.selected_bank, nor_dev.read_op.addr_val))]
            /\ Goto("read_dirmap")
            /\ UNCHANGED ret
    /\ UNCHANGED <<dev, loc, out, log, call, now, cb_calls, polls, inited, board>>

\* a read that counts the bytes of a bulk transaction before it looks at
\* its result
spi_nor_read_dirmap_CountsFailed ==
    /\ At("read_dirmap")
    /\ \E r \in Results :
        /\ Transact(DirmapOp(nor_dev.read_op), r)
        /\ out' = [out EXCEPT !.length_read = @ + nor_dev.read_op.data_nbytes]
        /\ IF r # 0
           THEN /\ loc' = [loc EXCEPT !.rd_ret = r]
                /\ CallFn("clean_bar", "read_failed")
                /\ UNCHANGED nor_dev
           ELSE /\ loc' = [loc EXCEPT !.length = @ - nor_dev.read_op.data_nbytes]
                /\ nor_dev' = [nor_dev EXCEPT !.read_op.addr_val = @ + nor_dev.read_op.data_nbytes]
                /\ Goto("read_loop")
    /\ UNCHANGED <<ret, call, now, cb_calls, polls, inited, board>>

\* lines 346-355: the bulk transaction; on failure clean_bar is called and
\* its result dropped, on success the cursor advances
spi_nor_read_dirmap ==
    /\ At("read_dirmap")
    /\ \E r \in Results :
        /\ Transact(DirmapOp(nor_dev.read_op), r)
        /\ IF r # 0
           THEN /\ loc' = [loc EXCEPT !.rd_ret = r]
                /\ CallFn("clean_bar", "read_failed")
                /\ UNCHANGED <<nor_dev, out>>
           ELSE /\ loc' = [loc EXCEPT !.length = @ - nor_dev.read_op.data_nbytes]
                /\ nor_dev' = [nor_dev EXCEPT !.read_op.addr_val = @ + nor_dev.read_op.data_nbytes]
                /\ out' = [out EXCEPT !.length_read = @ + nor_dev.read_op.data_nbytes]
                /\ Goto("read_loop")
    /\ UNCHANGED <<ret, call, now, cb_calls, polls, inited, board>>

\* line 349: return ret, the error of the bulk transaction
spi_nor_read_failed ==
    /\ At("read_failed")
    /\ Return(loc.rd_ret)
    /\ UNCHANGED <<nor_dev, dev, loc, out, log, call, now, cb_calls, polls, inited, board>>

\* a read that drops the result of the final clean_bar
spi_nor_read_cleaned_Dropped ==
    /\ At("read_cleaned")
    /\ Return(0)
    /\ UNCHANGED <<nor_dev, dev, loc, out, log, call, now, cb_calls, polls, inited, board>>

\* lines 359-365: the result of the final clean_bar is the result of read
spi_nor_read_cleaned ==
    /\ At("read_cleaned")
    /\ Return(ret)
    /\ UNCHANGED <<nor_dev, dev, loc, out, log, call, now, cb_calls, polls, inited, board>>

(* ------------------------------------------------------------------ *)
(* Readiness poller: spi_nor_ready, spi_nor_wait_ready                 *)
(* ------------------------------------------------------------------ *)
\* a poll that is ready as soon as the flag status register says so
ReadyResult_FsrOnly(sr, fsr, use_fsr) ==
    IF use_fsr
    THEN (IF HasBit(fsr, FSR_READY) THEN 0 ELSE 1)
    ELSE (IF ~HasBit(sr, SR_WIP) THEN 0 ELSE 1)

\* lines 104-108: 0 if ready, 1 if busy
ReadyResult(sr, fsr, use_fsr) ==
    IF use_fsr
    THEN (IF HasBit(fsr, FSR_READY) /\ ~HasBit(sr, SR_WIP) THEN 0 ELSE 1)
    ELSE (IF ~HasBit(sr, SR_WIP) THEN 0 ELSE 1)

\* timeout_init_us(us) of drivers/delay_timer.h: the expiry time
timeout_init_us(us) == now + us
\* timeout_elapsed(expire) of drivers/delay_timer.h
timeout_elapsed(expire) == now > expire

\* a register read of the poll loop: it takes d microseconds, during which
\* the flash may finish its write
TransactPoll(op, r, d, wip2, fsr2) ==
    /\ log' = Append(log, Entry(op, r, IF r = 0 THEN DevRead(dev, op.opcode) ELSE 0))
    /\ dev' = [dev EXCEPT !.wip = wip2, !.fsr_ready = fsr2]
    /\ now' = now + d

Poll(t, sr_ret, sr, fsr_read, fsr_ret, fsr, res) ==
    [t |-> t, end |-> now', sr_ret |-> sr_ret, sr |-> sr, fsr_read |-> fsr_read,
     fsr_ret |-> fsr_ret, fsr |-> fsr, res |-> res]

\* spi_nor_ready(), lines 91-96 and 108: the status register read
spi_nor_ready_sr ==
    /\ At("ready")
    /\ \E r \in Results, d \in Durations, wip2 \in {dev.wip, FALSE},
          fsr2 \in {dev.fsr_ready, TRUE} :
        /\ TransactPoll(spi_nor_reg(SPI_NOR_OP_READ_SR, 0, 1, "in"), r, d, wip2, fsr2)
        /\ IF r # 0
           THEN /\ Return(r)
                /\ polls' = Append(polls, Poll(now, r, 0, FALSE, 0, 0, r))
                /\ UNCHANGED loc
           ELSE IF USE_FSR
           THEN /\ Goto("ready_fsr")
                /\ loc' = [loc EXCEPT !.poll_t = now,
                                      !.poll_sr = DevRead(dev, SPI_NOR_OP_READ_SR)]
                /\ UNCHANGED <<ret, polls>>
           ELSE /\ Return(ReadyResult(DevRead(dev, SPI_NOR_OP_READ_SR), 0, FALSE))
                /\ polls' = Append(polls, Poll(now, 0, DevRead(dev, SPI_NOR_OP_READ_SR),
                                FALSE, 0, 0,
                                ReadyResult(DevRead(dev, SPI_NOR_OP_READ_SR), 0, FALSE)))
                /\ UNCHANGED loc
    /\ UNCHANGED <<nor_dev, out, call, cb_calls, inited, board>>

\* lines 97-105: the flag status register read
spi_nor_ready_fsr ==
    /\ At("ready_fsr")
    /\ \E r \in Results, d \in Durations, wip2 \in {dev.wip, FALSE},
          fsr2 \in {dev.fsr_ready, TRUE} :
        /\ TransactPoll(spi_nor_reg(SPI_NOR_OP_READ_FSR, 0, 1, "in"), r, d, wip2, fsr2)
        /\ IF r # 0
           THEN /\ Return(r)
                /\ polls' = Append(polls, Poll(loc.poll_t, 0, loc.poll_sr, TRUE, r, 0, r))
           ELSE /\ Return(ReadyResult(loc.poll_sr, DevRead(dev, SPI_NOR_OP_READ_FSR), TRUE))
                /\ polls' = Append(polls, Poll(loc.poll_t, 0, loc.poll_sr, TRUE, 0,
                                DevRead(dev, SPI_NOR_OP_READ_FSR),
                                ReadyResult(loc.poll_sr, DevRead(dev, SPI_NOR_OP_READ_FSR), TRUE)))
    /\ UNCHANGED <<nor_dev, loc, out, call, cb_calls, inited, board>>

\* spi_nor_wait_ready(), line 114: the deadline
spi_nor_wait_ready_enter ==
    /\ At("wait_ready")
    /\ loc' = [loc EXCEPT !.timeout = timeout_init_us(SPI_READY_TIMEOUT_US)]
    /\ polls' = <<>>
    /\ Goto("wait_ready_loop")
    /\ UNCHANGED <<nor_dev, dev, ret, out, log, call, now, cb_calls, inited, board>>

\* lines 116-117 and 123: the deadline test, then the poll
spi_nor_wait_ready_loop ==
    /\ At("wait_ready_loop")
    /\ IF timeout_elapsed(loc.timeout)
       THEN Return(-ETIMEDOUT)
       ELSE CallFn("ready", "wait_ready_polled") /\ UNCHANGED ret
    /\ UNCHANGED <<nor_dev, dev, loc, out, log, call, now, cb_calls, polls, inited, board>>

\* lines 118-120: ready or error ends the loop; otherwise the counter is read
\* again after a delay e
spi_nor_wait_ready_polled ==
    /\ At("wait_ready_polled")
    /\ IF ret <= 0
       THEN Return(ret) /\ UNCHANGED now
       ELSE /\ Goto("wait_ready_loop")
            /\ \E e \in Delays : now' = now + e
            /\ UNCHANGED ret
    /\ UNCHANGED <<nor_dev, dev, loc, out, log, call, cb_calls, polls, inited, board>>

(* ------------------------------------------------------------------ *)
(* Capability enablement                                               *)
(* ------------------------------------------------------------------ *)
\* a status register write: the flash may be busy afterwards
TransactWrite(op, r, wip2, fsr2) ==
    /\ log' = Append(log, Entry(op, r, 0))
    /\ dev' = IF r = 0
              THEN [DevAfter(dev, op) EXCEPT !.wip = wip2, !.fsr_ready = fsr2]
              ELSE dev

\* a quad enable that rewrites the status register whatever it read
spi_nor_macronix_quad_enable_rdsr_Always ==
    /\ At("macronix_quad_enable")
    /\ \E r \in Results :
        /\ Transact(spi_nor_reg(SPI_NOR_OP_READ_SR, 0, 1, "in"), r)
        /\ IF r # 0
           THEN Return(r) /\ UNCHANGED loc
           ELSE /\ loc' = [loc EXCEPT !.sr = DevRead(dev, SPI_NOR_OP_READ_SR)]
                /\ Goto("macronix_quad_wren")
                /\ UNCHANGED ret
    /\ UNCHANGED <<nor_dev, out, call, now, cb_calls, polls, inited, board>>

\* spi_nor_macronix_quad_enable(), lines 131-138: the idempotent short cut
spi_nor_macronix_quad_enable_rdsr ==
    /\ At("macronix_quad_enable")
    /\ \E r \in Results :
        /\ Transact(spi_nor_reg(SPI_NOR_OP_READ_SR, 0, 1, "in"), r)
        /\ IF r # 0
           THEN Return(r) /\ UNCHANGED loc
           ELSE /\ loc' = [loc EXCEPT !.sr = DevRead(dev, SPI_NOR_OP_READ_SR)]
                /\ IF HasBit(DevRead(dev, SPI_NOR_OP_READ_SR), SR_QUAD_EN_MX)
                   THEN Return(0)
                   ELSE Goto("macronix_quad_wren") /\ UNCHANGED ret
    /\ UNCHANGED <<nor_dev, out, call, now, cb_calls, polls, inited, board>>

\* lines 140-145: write enable, then sr |= SR_QUAD_EN_MX
spi_nor_macronix_quad_enable_wren ==
    /\ At("macronix_quad_wren")
    /\ \E r \in Results :
        /\ Transact(spi_nor_reg(SPI_NOR_OP_WREN, 0, 0, "out"), r)
        /\ IF r # 0
           THEN Return(r) /\ UNCHANGED loc
           ELSE /\ loc' = [loc EXCEPT !.sr = OrBit(@, SR_QUAD_EN_MX)]
                /\ Goto("macronix_quad_wrsr")
                /\ UNCHANGED ret
    /\ UNCHANGED <<nor_dev, out, call, now, cb_calls, polls, inited, board>>

\* lines 146-151: the 1-byte status register write, then the wait
spi_nor_macronix_quad_enable_wrsr ==
    /\ At("macronix_quad_wrsr")
    /\ \E r \in Results, wip2 \in BOOLEAN, fsr2 \in BOOLEAN :
        /\ TransactWrite(spi_nor_reg(SPI_NOR_OP_WRSR, loc.sr, 1, "out"), r, wip2, fsr2)
        /\ IF r # 0
           THEN Return(r)
           ELSE CallFn("wait_ready", "macronix_quad_waited") /\ UNCHANGED ret
    /\ UNCHANGED <<nor_dev, loc, out, call, now, cb_calls, polls, inited, board>>

\* lines 152-154: the result of the wait
spi_nor_macronix_quad_enable_waited ==
    /\ At("macronix_quad_waited")
    /\ IF ret # 0 THEN Return(ret) ELSE Goto("macronix_quad_verify") /\ UNCHANGED ret
    /\ UNCHANGED <<nor_dev, dev, loc, out, log, call, now, cb_calls, polls, inited, board>>

\* a verifying read that only looks at the result of the transaction
spi_nor_macronix_quad_enable_verify_Lenient ==
    /\ At("macronix_quad_verify")
    /\ \E r \in Results :
        /\ Transact(spi_nor_reg(SPI_NOR_OP_READ_SR, 0, 1, "in"), r)
        /\ IF r # 0 THEN Return(-EINVAL) ELSE Return(0)
    /\ UNCHANGED <<nor_dev, loc, out, call, now, cb_calls, polls, inited, board>>

\* lines 156-161: the verifying read
spi_nor_macronix_quad_enable_verify ==
    /\ At("macronix_quad_verify")
    /\ \E r \in Results :
        /\ Transact(spi_nor_reg(SPI_NOR_OP_READ_SR, 0, 1, "in"), r)
        /\ IF r # 0 \/ ~HasBit(DevRead(dev, SPI_NOR_OP_READ_SR), SR_QUAD_EN_MX)
           THEN Return(-EINVAL)
           ELSE Return(0)
    /\ UNCHANGED <<nor_dev, loc, out, call, now, cb_calls, polls, inited, board>>

\* spi_nor_write_sr_cr(), lines 168-171: write enable
spi_nor_write_sr_cr_wren ==
    /\ At("write_sr_cr")
    /\ \E r \in Results :
        /\ Transact(spi_nor_reg(SPI_NOR_OP_WREN, 0, 0, "out"), r)
        /\ IF r # 0 THEN Return(r) ELSE Goto("write_sr_cr_wrsr") /\ UNCHANGED ret
    /\ UNCHANGED <<nor_dev, loc, out, call, now, cb_calls, polls, inited, board>>

\* lines 173-178: the 2-byte write of status and configuration register
spi_nor_write_sr_cr_wrsr ==
    /\ At("write_sr_cr_wrsr")
    /\ \E r \in Results, wip2 \in BOOLEAN, fsr2 \in BOOLEAN :
        /\ TransactWrite(spi_nor_reg(SPI_NOR_OP_WRSR, loc.sr + 256 * loc.cr, 2, "out"),
                         r, wip2, fsr2)
        /\ IF r # 0
           THEN Return(-EINVAL)
           ELSE CallFn("wait_ready", "write_sr_cr_waited") /\ UNCHANGED ret
    /\ UNCHANGED <<nor_dev, loc, out, call, now, cb_calls, polls, inited, board>>

\* lines 179-183: the result of the wait
spi_nor_write_sr_cr_waited ==
    /\ At("write_sr_cr_waited")
    /\ Return(ret)
    /\ UNCHANGED <<nor_dev, dev, loc, out, log, call, now, cb_calls, polls, inited, board>>

\* spi_nor_quad_enable(), lines 191-200: the idempotent short cut
spi_nor_quad_enable_rdcr ==
    /\ At("quad_enable")
    /\ \E r \in Results :
        /\ Transact(spi_nor_reg(SPI_NOR_OP_READ_CR, 0, 1, "in"), r)
        /\ IF r # 0
           THEN Return(r) /\ UNCHANGED loc
           ELSE IF HasBit(DevRead(dev, SPI_NOR_OP_READ_CR), CR_QUAD_EN_SPAN)
           THEN /\ Return(0)
                /\ loc' = [loc EXCEPT !.cr = DevRead(dev, SPI_NOR_OP_READ_CR)]
           ELSE /\ Goto("quad_enable_rdsr")
                /\ loc' = [loc EXCEPT !.cr = OrBit(DevRead(dev, SPI_NOR_OP_READ_CR),
                                                  CR_QUAD_EN_SPAN)]
                /\ UNCHANGED ret
    /\ UNCHANGED <<nor_dev, out, call, now, cb_calls, polls, inited, board>>

\* lines 201-206: the status register is read to be written back
spi_nor_quad_enable_rdsr ==
    /\ At("quad_enable_rdsr")
    /\ \E r \in Results :
        /\ Transact(spi_nor_reg(SPI_NOR_OP_READ_SR, 0, 1, "in"), r)
        /\ IF r # 0
           THEN Return(r) /\ UNCHANGED loc
           ELSE /\ loc' = [loc EXCEPT !.sr = DevRead(dev, SPI_NOR_OP_READ_SR)]
                /\ CallFn("write_sr_cr", "quad_enable_written")
                /\ UNCHANGED ret
    /\ UNCHANGED <<nor_dev, out, call, now, cb_calls, polls, inited, board>>

\* lines 207-209: the result of spi_nor_write_sr_cr
spi_nor_quad_enable_written ==
    /\ At("quad_enable_written")
    /\ IF ret # 0 THEN Return(ret) ELSE Goto("quad_enable_verify") /\ UNCHANGED ret
    /\ UNCHANGED <<nor_dev, dev, loc, out, log, call, now, cb_calls, polls, inited, board>>

\* lines 211-216: the verifying read of the configuration register
spi_nor_quad_enable_verify ==
    /\ At("quad_enable_verify")
    /\ \E r \in Results :
        /\ Transact(spi_nor_reg(SPI_NOR_OP_READ_CR, 0, 1, "in"), r)
        /\ IF r # 0 \/ ~HasBit(DevRead(dev, SPI_NOR_OP_READ_CR), CR_QUAD_EN_SPAN)
           THEN Return(-EINVAL)
           ELSE Return(0)
    /\ UNCHANGED <<nor_dev, loc, out, call, now, cb_calls, polls, inited, board>>

\* the operation of spi_nor_macronix_octal_dtr_enable(), lines 225-234
OctalOp(addr, val) ==
    [kind |-> "exec", opcode |-> SPI_NOR_OP_WR_CR2, cmd_nbytes |-> 1, cmd_buswidth |-> 1,
     addr_nbytes |-> 4, addr |-> addr, dir |-> "out", nbytes |-> 1, val |-> val]

\* lines 236-239: first write enable
spi_nor_macronix_octal_dtr_enable_wren1 ==
    /\ At("octal_dtr_enable")
    /\ \E r \in Results :
        /\ Transact(spi_nor_reg(SPI_NOR_OP_WREN, 0, 0, "out"), r)
        /\ IF r # 0 THEN Return(r) ELSE Goto("octal_dtr_dc") /\ UNCHANGED ret
    /\ UNCHANGED <<nor_dev, loc, out, call, now, cb_calls, polls, inited, board>>

\* lines 241-247: the dummy cycle field
spi_nor_macronix_octal_dtr_enable_dc ==
    /\ At("octal_dtr_dc")
    /\ \E r \in Results :
        /\ Transact(OctalOp(SPI_NOR_REG_MXIC_CR2_DC, SPI_NOR_REG_MXIC_DC_20), r)
        /\ IF r # 0 THEN Return(r) ELSE Goto("octal_dtr_wren2") /\ UNCHANGED ret
    /\ UNCHANGED <<nor_dev, loc, out, call, now, cb_calls, polls, inited, board>>

\* lines 249-252: second write enable
spi_nor_macronix_octal_dtr_enable_wren2 ==
    /\ At("octal_dtr_wren2")
    /\ \E r \in Results :
        /\ Transact(spi_nor_reg(SPI_NOR_OP_WREN, 0, 0, "out"), r)
        /\ IF r # 0 THEN Return(r) ELSE Goto("octal_dtr_mode") /\ UNCHANGED ret
    /\ UNCHANGED <<nor_dev, loc, out, call, now, cb_calls, polls, inited, board>>

\* lines 254-257: the octal DTR enable field
spi_nor_macronix_octal_dtr_enable_mode ==
    /\ At("octal_dtr_mode")
    /\ \E r \in Results :
        /\ Transact(OctalOp(SPI_NOR_REG_MXIC_CR2_MODE, SPI_NOR_REG_MXIC_OPI_DTR_EN), r)
        /\ Return(r)
    /\ UNCHANGED <<nor_dev, loc, out, call, now, cb_calls, polls, inited, board>>

(* ------------------------------------------------------------------ *)
(* spi_nor_init                                                        *)
(* ------------------------------------------------------------------ *)
\* lines 374-380: the default read command
InitDefaults(nd) ==
    [nd EXCEPT !.read_op.cmd_opcode = SPI_NOR_OP_READ,
               !.read_op.cmd_nbytes = 1,
               !.read_op.cmd_buswidth = 1,
               !.read_op.addr_nbytes = 3,
               !.read_op.addr_buswidth = 1,
               !.read_op.data_buswidth = 1]

\* plat_get_nor_data(&nor_dev) of the platform, when it returns 0
plat_get_nor_data(nd, plat) ==
    [nd EXCEPT !.size = plat.size,
               !.flags = plat.flags,
               !.read_op.cmd_opcode = plat.mode.cmd_opcode,
               !.read_op.cmd_nbytes = plat.mode.cmd_nbytes,
               !.read_op.cmd_buswidth = plat.mode.cmd_buswidth,
               !.read_op.addr_nbytes = plat.mode.addr_nbytes,
               !.read_op.data_buswidth = plat.mode.data_buswidth]

\* lines 422-433: the bank register opcodes of the vendor
BankCmds(nd, id) ==
    IF "USE_BANK" \notin nd.flags THEN nd
    ELSE IF id = SPANSION_ID
    THEN [nd EXCEPT !.bank_read_cmd = SPINOR_OP_BRRD, !.bank_write_cmd = SPINOR_OP_BRWR]
    ELSE [nd EXCEPT !.bank_read_cmd = SPINOR_OP_RDEAR, !.bank_write_cmd = SPINOR_OP_WREAR]

\* a driver call starts: the log is empty and the clock at 0 since Returned
Enter(c, st, l) ==
    /\ At("idle")
    /\ call' = c
    /\ stack' = st
    /\ loc' = l
    /\ UNCHANGED <<log, now, cb_calls, polls>>

\* spi_nor_init(), lines 374-397: defaults, platform data, *size
spi_nor_init_enter ==
    \E plat \in {board, NoPlatData} :
        /\ Enter([NoCall EXCEPT !.fn = "init", !.plat = plat,
                                !.bank0 = nor_dev.selected_bank, !.devbank0 = dev.bank],
                 IF plat.hook_ret # 0 THEN <<"done">> ELSE <<"init_read_id", "done">>, Loc0)
        /\ IF plat.hook_ret # 0
           THEN /\ nor_dev' = InitDefaults(nor_dev)
                /\ ret' = -EINVAL
                /\ out' = Out0
           ELSE /\ nor_dev' = plat_get_nor_data(InitDefaults(nor_dev), plat)
                /\ ret' = 0
                /\ out' = [Out0 EXCEPT !.size = plat.size, !.size_set = TRUE]
        /\ UNCHANGED <<dev, inited, board>>

\* an init that enables octal DTR on any command bus width
spi_nor_init_read_id_AnyWidth ==
    /\ At("init_read_id")
    /\ \E r \in Results :
        /\ Transact(spi_nor_reg(SPI_NOR_OP_READ_ID, 0, 1, "in"), r)
        /\ IF r # 0
           THEN Return(r) /\ UNCHANGED <<nor_dev, loc>>
           ELSE IF nor_dev.read_op.cmd_nbytes = 2
           THEN /\ UNCHANGED nor_dev
                /\ loc' = [loc EXCEPT !.id = dev.id]
                /\ IF dev.id = MACRONIX_ID
                   THEN CallFn("octal_dtr_enable", "init_octal_done") /\ UNCHANGED ret
                   ELSE Return(-EOPNOTSUPP)
           ELSE /\ nor_dev' = BankCmds(nor_dev, dev.id)
                /\ loc' = [loc EXCEPT !.id = dev.id, !.init_ret = 0]
                /\ UNCHANGED ret
                /\ IF nor_dev.read_op.data_buswidth = 4 /\ dev.id = MACRONIX_ID
                   THEN CallFn("macronix_quad_enable", "init_quad_done")
                   ELSE IF nor_dev.read_op.data_buswidth = 4 /\ dev.id # MICRON_ID
                   THEN CallFn("quad_enable", "init_quad_done")
                   ELSE Goto("init_bank")
    /\ UNCHANGED <<out, call, now, cb_calls, polls, inited, board>>

\* lines 399-447: the id read, then the dispatch on opcode width, flags,
\* data bus width and vendor
spi_nor_init_read_id ==
    /\ At("init_read_id")
    /\ \E r \in Results :
        /\ Transact(spi_nor_reg(SPI_NOR_OP_READ_ID, 0, 1, "in"), r)
        /\ IF r # 0
           THEN Return(r) /\ UNCHANGED <<nor_dev, loc>>
           ELSE IF nor_dev.read_op.cmd_nbytes = 2
           THEN /\ UNCHANGED nor_dev
                /\ loc' = [loc EXCEPT !.id = dev.id]
                /\ IF nor_dev.read_op.cmd_buswidth = 8 /\ dev.id = MACRONIX_ID
                   THEN CallFn("octal_dtr_enable", "init_octal_done") /\ UNCHANGED ret
                   ELSE Return(-EOPNOTSUPP)
           ELSE /\ nor_dev' = BankCmds(nor_dev, dev.id)
                /\ loc' = [loc EXCEPT !.id = dev.id, !.init_ret = 0]
                /\ UNCHANGED ret
                /\ IF nor_dev.read_op.data_buswidth = 4 /\ dev.id = MACRONIX_ID
                   THEN CallFn("macronix_quad_enable", "init_quad_done")
                   ELSE IF nor_dev.read_op.data_buswidth = 4 /\ dev.id # MICRON_ID
                   THEN CallFn("quad_enable", "init_quad_done")
                   ELSE Goto("init_bank")
    /\ UNCHANGED <<out, call, now, cb_calls, polls, inited, board>>

\* line 419: the result of the octal enable is returned directly
spi_nor_init_octal_done ==
    /\ At("init_octal_done")
    /\ Return(ret)
    /\ UNCHANGED <<nor_dev, dev, loc, out, log, call, now, cb_calls, polls, inited, board>>

\* lines 439 and 444: ret takes the result of the quad enable
spi_nor_init_quad_done ==
    /\ At("init_quad_done")
    /\ loc' = [loc EXCEPT !.init_ret = ret]
    /\ Goto("init_bank")
    /\ UNCHANGED <<nor_dev, dev, ret, out, log, call, now, cb_calls, polls, inited, board>>

\* an init that reads the bank back whatever the steps before returned
spi_nor_init_bank_Always ==
    /\ At("init_bank")
    /\ IF USE_BANK
       THEN CallFn("read_bar", "init_bar_read") /\ UNCHANGED ret
       ELSE Return(loc.init_ret)
    /\ UNCHANGED <<nor_dev, dev, loc, out, log, call, now, cb_calls, polls, inited, board>>

\* lines 449-453: the cached bank is read back when all went well
spi_nor_init_bank ==
    /\ At("init_bank")
    /\ IF loc.init_ret = 0 /\ USE_BANK
       THEN CallFn("read_bar", "init_bar_read") /\ UNCHANGED ret
       ELSE Return(loc.init_ret)
    /\ UNCHANGED <<nor_dev, dev, loc, out, log, call, now, cb_calls, polls, inited, board>>

\* line 453: return ret
spi_nor_init_bar_read ==
    /\ At("init_bar_read")
    /\ Return(ret)
    /\ UNCHANGED <<nor_dev, dev, loc, out, log, call, now, cb_calls, polls, inited, board>>

(* ------------------------------------------------------------------ *)
(* spi_nor_reset                                                       *)
(* ------------------------------------------------------------------ *)
\* lines 468-471: the two bytes of the read opcode are equal
OpcodeRepeated(opcode) == ((opcode \div 256) % 256) = (opcode % 256)

\* a reset opcode that is always the inverted form
ResetOpcode_Inverted(op, repeat) == (op * 256) + (255 - (op % 256))

\* lines 483-488 and 496-501: (op << 8) | (op & 0xFF), or | (~op & 0xFF)
ResetOpcode(op, repeat) ==
    (op * 256) + (IF repeat THEN op % 256 ELSE (255 - (op % 256)))

\* the operation of lines 473-480
ResetOp(opcode) ==
    [kind |-> "exec", opcode |-> opcode, cmd_nbytes |-> 2, cmd_buswidth |-> 8,
     addr_nbytes |-> 0, addr |-> 0, dir |-> "out", nbytes |-> 0, val |-> 0]

\* the flash after a software reset: its volatile bank register is 0
DevReset(d) == [d EXCEPT !.bank = 0, !.wip = FALSE, !.fsr_ready = TRUE]

\* spi_nor_reset(), lines 463-471
spi_nor_reset_enter ==
    /\ At("reset")
    /\ IF nor_dev.read_op.cmd_nbytes # 2
       THEN Return(0) /\ UNCHANGED loc
       ELSE /\ loc' = [loc EXCEPT !.repeat = OpcodeRepeated(nor_dev.read_op.cmd_opcode)]
            /\ Goto("reset_srsten")
            /\ UNCHANGED ret
    /\ UNCHANGED <<nor_dev, dev, out, log, call, now, cb_calls, polls, inited, board>>

\* lines 483-493: software reset enable
spi_nor_reset_srsten ==
    /\ At("reset_srsten")
    /\ \E r \in Results :
        /\ Transact(ResetOp(ResetOpcode(SPI_NOR_OP_SRSTEN, loc.repeat)), r)
        /\ IF r # 0 THEN Return(r) ELSE Goto("reset_srst") /\ UNCHANGED ret
    /\ UNCHANGED <<nor_dev, loc, out, call, now, cb_calls, polls, inited, board>>

\* lines 496-515: software reset, then the settle delay
spi_nor_reset_srst ==
    /\ At("reset_srst")
    /\ \E r \in Results :
        /\ log' = Append(log, Entry(ResetOp(ResetOpcode(SPI_NOR_OP_SRST, loc.repeat)), r, 0))
        /\ dev' = IF r = 0 THEN DevReset(dev) ELSE dev
        /\ now' = IF r = 0 THEN now + SPI_NOR_SRST_US ELSE now
        /\ Return(r)
    /\ UNCHANGED <<nor_dev, loc, out, call, cb_calls, polls, inited, board>>

(* ------------------------------------------------------------------ *)
(* The callers: the driver API and direct calls of the static functions *)
(* ------------------------------------------------------------------ *)
Caller(fn) == [NoCall EXCEPT !.fn = fn, !.bank0 = nor_dev.selected_bank,
                             !.devbank0 = dev.bank]

\* spi_nor_read(offset, buffer, length, length_read), lines 326-328
spi_nor_read_enter ==
    /\ inited
    /\ \E a \in ReadArgs :
        /\ Enter([Caller("read") EXCEPT !.offset = a[1], !.length = a[2]],
                 <<"read_loop", "done">>, [Loc0 EXCEPT !.length = a[2]])
        /\ nor_dev' = [nor_dev EXCEPT !.read_op.addr_val = a[1]]
        /\ out' = [Out0 EXCEPT !.length_read = 0]
    /\ UNCHANGED <<dev, ret, inited, board>>

spi_nor_reset_call ==
    /\ inited
    /\ Enter(Caller("reset"), <<"reset", "done">>, Loc0)
    /\ out' = Out0
    /\ UNCHANGED <<nor_dev, dev, ret, inited, board>>

\* the static functions are callable once init has set up what they use
BankReady == inited /\ USE_BANK /\ nor_dev.read_op.cmd_nbytes # 2

\* spi_nor_write_bar(offset) and, when it returns 0, spi_nor_write_bar(offset2)
spi_nor_write_bar_call ==
    /\ BankReady
    /\ \E offset \in Offsets, offset2 \in Offsets :
        /\ Enter([Caller("write_bar") EXCEPT !.offset = offset, !.offset2 = offset2],
                 <<"write_bar", "write_bar_again", "done">>,
                 [Loc0 EXCEPT !.wb_offset = offset])
    /\ out' = Out0
    /\ UNCHANGED <<nor_dev, dev, ret, inited, board>>

\* loc.mark is the length of the log when the second call starts
spi_nor_write_bar_again ==
    /\ At("write_bar_again")
    /\ IF ret # 0
       THEN Return(ret) /\ UNCHANGED loc
       ELSE /\ loc' = [loc EXCEPT !.wb_offset = call.offset2, !.mark = Len(log)]
            /\ Goto("write_bar")
            /\ UNCHANGED ret
    /\ UNCHANGED <<nor_dev, dev, out, log, call, now, cb_calls, polls, inited, board>>

spi_nor_clean_bar_call ==
    /\ BankReady
    /\ Enter(Caller("clean_bar"), <<"clean_bar", "done">>, Loc0)
    /\ out' = Out0
    /\ UNCHANGED <<nor_dev, dev, ret, inited, board>>

\* the quad enables use the flags of nor_dev only: they are callable as soon
\* as init has taken the platform data of a 4-line board, even if init failed
\* before it enabled anything
QuadReady == nor_dev.read_op.cmd_nbytes # 2 /\ nor_dev.read_op.data_buswidth = 4

\* the quad enable of the vendor and, when it returns 0, the same once more
spi_nor_quad_enable_call ==
    /\ QuadReady /\ dev.id # MICRON_ID
    /\ IF dev.id = MACRONIX_ID
       THEN Enter(Caller("macronix_quad_enable"),
                  <<"macronix_quad_enable", "quad_enable_again", "done">>, Loc0)
       ELSE Enter(Caller("quad_enable"),
                  <<"quad_enable", "quad_enable_again", "done">>, Loc0)
    /\ out' = Out0
    /\ UNCHANGED <<nor_dev, dev, ret, inited, board>>

spi_nor_quad_enable_again ==
    /\ At("quad_enable_again")
    /\ IF ret # 0
       THEN Return(ret) /\ UNCHANGED loc
       ELSE /\ loc' = [loc EXCEPT !.mark = Len(log)]
            /\ Goto(call.fn)
            /\ UNCHANGED ret
    /\ UNCHANGED <<nor_dev, dev, out, log, call, now, cb_calls, polls, inited, board>>

\* The call has returned to its caller.  The address and length of the read
\* template are dropped: every read writes them (lines 327, 341, 343) before
\* it uses them.  The flash finishes a pending register write before the
\* next call.
Returned ==
    /\ At("done")
    /\ stack' = <<"idle">>
    /\ inited' = IF call.fn = "init" THEN ret = 0 ELSE inited
    /\ nor_dev' = [nor_dev EXCEPT !.read_op.addr_val = 0, !.read_op.data_nbytes = 0]
    /\ dev' = [dev EXCEPT !.wip = FALSE, !.fsr_ready = TRUE]
    /\ ret' = 0
    /\ loc' = Loc0
    /\ out' = Out0
    /\ log' = <<>>
    /\ call' = NoCall
    /\ now' = 0
    /\ cb_calls' = 0
    /\ polls' = <<>>
    /\ UNCHANGED board

\* init on the boards of the bank reader
InitActions ==
    \/ spi_nor_init_enter
    \/ spi_nor_init_read_id
    \/ spi_nor_init_bank
    \/ spi_nor_init_bar_read
    \/ spi_nor_read_bar
    \/ Returned

\* the bank reader
NextBank ==
    \/ InitActions
    \/ spi_nor_read_enter
    \/ spi_nor_read_loop
    \/ spi_nor_read_clamp
    \/ spi_nor_read_dirmap
    \/ spi_nor_read_failed
    \/ spi_nor_read_cleaned
    \/ spi_nor_write_bar_call
    \/ spi_nor_write_bar_again
    \/ spi_nor_write_bar_enter
    \/ spi_nor_write_bar_wren
    \/ spi_nor_write_bar_reg
    \/ spi_nor_clean_bar_call
    \/ spi_nor_clean_bar_enter
    \/ spi_nor_clean_bar_wren
    \/ spi_nor_clean_bar_reg

\* init with the capability sequences, the readiness poller and reset
NextCap ==
    \/ InitActions
    \/ spi_nor_init_octal_done
    \/ spi_nor_init_quad_done
    \/ spi_nor_ready_sr
    \/ spi_nor_ready_fsr
    \/ spi_nor_wait_ready_enter
    \/ spi_nor_wait_ready_loop
    \/ spi_nor_wait_ready_polled
    \/ spi_nor_quad_enable_call
    \/ spi_nor_quad_enable_again
    \/ spi_nor_macronix_quad_enable_rdsr
    \/ spi_nor_macronix_quad_enable_wren
    \/ spi_nor_macronix_quad_enable_wrsr
    \/ spi_nor_macronix_quad_enable_waited
    \/ spi_nor_macronix_quad_enable_verify
    \/ spi_nor_quad_enable_rdcr
    \/ spi_nor_quad_enable_rdsr
    \/ spi_nor_quad_enable_written
    \/ spi_nor_quad_enable_verify
    \/ spi_nor_write_sr_cr_wren
    \/ spi_nor_write_sr_cr_wrsr
    \/ spi_nor_write_sr_cr_waited
    \/ spi_nor_macronix_octal_dtr_enable_wren1
    \/ spi_nor_macronix_octal_dtr_enable_dc
    \/ spi_nor_macronix_octal_dtr_enable_wren2
    \/ spi_nor_macronix_octal_dtr_enable_mode
    \/ spi_nor_reset_call
    \/ spi_nor_reset_enter
    \/ spi_nor_reset_srsten
    \/ spi_nor_reset_srst

\* init and read only: the driver as its callers use it
NextRead ==
    \/ InitActions
    \/ spi_nor_read_enter
    \/ spi_nor_read_loop
    \/ spi_nor_read_clamp
    \/ spi_nor_read_dirmap
    \/ spi_nor_read_failed
    \/ spi_nor_read_cleaned
    \/ spi_nor_write_bar_enter
    \/ spi_nor_write_bar_wren
    \/ spi_nor_write_bar_reg
    \/ spi_nor_clean_bar_enter
    \/ spi_nor_clean_bar_wren
    \/ spi_nor_clean_bar_reg

SpecBank == Start(BankBoards, {TRUE}) /\ [][NextBank]_vars
SpecRead == Start(BankBoards, {TRUE}) /\ [][NextRead]_vars
\* a call in progress runs on: the driver is single-threaded and blocking
SpecReadFair == SpecRead /\ WF_vars(NextRead)
SpecCap == Start(CapBoards, BOOLEAN) /\ [][NextCap]_vars

(* ------------------------------------------------------------------ *)
(* Properties                                                          *)
(* ------------------------------------------------------------------ *)
\* the driver call fn has returned to its caller
Done(fn) == At("done") /\ call.fn = fn

IsBulk(e) == e.kind = "dirmap"
IsWren(e) == e.kind = "exec" /\ e.opcode = SPI_NOR_OP_WREN /\ e.nbytes = 0
IsBankWrite(e) == e.kind = "exec" /\ e.opcode \in BankWriteOps /\ e.dir = "out" /\ e.nbytes = 1

\* the indexes of the log entries that satisfy P
Where(P(_)) == {i \in 1..Len(log) : P(log[i])}

\* C1: with banking enabled and offset + length within the declared capacity,
\* every bulk read transaction of read has at least 1 byte and lies inside
\* one bank window.
C1_BulkInsideOneBank ==
    (call.fn = "read" /\ USE_BANK /\ call.offset + call.length <= nor_dev.size)
    => \A i \in Where(IsBulk) :
           /\ log[i].nbytes >= 1
           /\ log[i].addr \div BANK_SIZE = (log[i].addr + log[i].nbytes - 1) \div BANK_SIZE

\* a banked read inside the capacity that crossed a window boundary and returned 0
C1_Witness ==
    /\ Done("read") /\ USE_BANK /\ ret = 0
    /\ call.offset + call.length <= nor_dev.size
    /\ call.offset \div BANK_SIZE # (call.offset + call.length - 1) \div BANK_SIZE
    /\ Cardinality(Where(IsBulk)) >= 2

\* C2: with banking enabled, after any read call returns, whether it succeeded
\* or failed and whatever bank was cached when it started, the cached
\* selected_bank equals 0.
C2_SelectedBankZeroAfterRead ==
    (Done("read") /\ USE_BANK) => nor_dev.selected_bank = 0

\* the result of the first transaction of the log that failed (0 if none did)
RECURSIVE FirstError(_)
FirstError(l) ==
    IF l = <<>> THEN 0
    ELSE IF Head(l).ret # 0 THEN Head(l).ret
    ELSE FirstError(Tail(l))

\* read returned an error from inside its loop: bytes remain to be read
ReadFailedInLoop == Done("read") /\ ret # 0 /\ loc.length # 0

\* C3: with banking enabled, whenever read returns an error because a
\* transaction issued inside its loop failed, a clean_bank attempt was made in
\* that call, and the code returned is the error of the failed transaction.
C3_CleanupOnLoopError ==
    (ReadFailedInLoop /\ USE_BANK) => (cb_calls >= 1 /\ ret = FirstError(log))

\* write_bar(offset) returned 0, and then write_bar(offset2) returned 0
WriteBarTwice == Done("write_bar") /\ loc.mark >= 0 /\ ret = 0

\* C6: two consecutive successful write_bank calls whose offsets map to the
\* same bank issue exactly one bank-select register write in total (none if
\* that bank was already the cached one), and the second call issues no
\* transaction at all.
C6_WriteBarIdempotent ==
    (WriteBarTwice /\ TargetBank(call.offset) = TargetBank(call.offset2))
    => /\ Cardinality(Where(IsBankWrite))
              = (IF TargetBank(call.offset) = call.bank0 THEN 0 ELSE 1)
       /\ Len(log) = loc.mark

\* two successful calls for two different offsets of one bank that was not
\* the cached one: one write-enable and one bank-select write, all in the
\* first call
C6_Witness ==
    /\ WriteBarTwice
    /\ TargetBank(call.offset) = TargetBank(call.offset2)
    /\ call.offset # call.offset2
    /\ TargetBank(call.offset) # call.bank0
    /\ Cardinality(Where(IsBankWrite)) = 1
    /\ loc.mark = 2 /\ Len(log) = 2

\* what the log says was put on the bus, transaction by transaction
Abstract(e) ==
    IF IsBulk(e) THEN [k |-> "bulk", a |-> e.addr, n |-> e.nbytes]
    ELSE IF IsBankWrite(e) THEN [k |-> "bank", a |-> e.val, n |-> 1]
    ELSE IF IsWren(e) THEN [k |-> "wren", a |-> 0, n |-> 0]
    ELSE [k |-> "other", a |-> e.opcode, n |-> e.nbytes]

Trace == [i \in 1..Len(log) |-> Abstract(log[i])]

SelectBank(b) == <<[k |-> "wren", a |-> 0, n |-> 0], [k |-> "bank", a |-> b, n |-> 1]>>

\* one bulk transaction per window from window b to the end of the read,
\* lowest first, with a bank select wherever the window is not the one
\* selected (cur), and a last select of bank 0 if the last window is not 0
RECURSIVE Windows(_, _, _, _)
Windows(b, cur, offset, end) ==
    IF b * BANK_SIZE >= end
    THEN (IF cur # 0 THEN SelectBank(0) ELSE <<>>)
    ELSE LET lo == IF offset > b * BANK_SIZE THEN offset ELSE b * BANK_SIZE
             hi == IF end < (b + 1) * BANK_SIZE THEN end ELSE (b + 1) * BANK_SIZE
         IN  (IF b # cur THEN SelectBank(b) ELSE <<>>)
             \o <<[k |-> "bulk", a |-> lo, n |-> hi - lo]>>
             \o Windows(b + 1, b, offset, end)

\* a banked read of at least one byte that returned 0 and started with bank 0 cached
BankedReadOk ==
    Done("read") /\ USE_BANK /\ ret = 0 /\ call.bank0 = 0 /\ call.length > 0

\* C9: a successful banked read that starts with cached bank 0 issues exactly
\* one bulk transaction per bank window touched, in increasing address order,
\* exactly one bank-select write per change of window, and one final
\* bank-select write of 0 when the last window is not bank 0.  The read of
\* 4 MiB at 15 MiB is 1 MiB at 15 MiB, 3 MiB at 16 MiB with bank 1 selected,
\* then one bank-select write of 0.
C9_OneBulkPerWindow ==
    BankedReadOk
    => /\ Trace = Windows(call.offset \div BANK_SIZE, 0, call.offset,
                          call.offset + call.length)
       /\ (call.offset = 15 * MiB /\ call.length = 4 * MiB)
          => Trace = <<[k |-> "bulk", a |-> 15 * MiB, n |-> MiB]>>
                     \o SelectBank(1)
                     \o <<[k |-> "bulk", a |-> 16 * MiB, n |-> 3 * MiB]>>
                     \o SelectBank(0)

\* the read of 4 MiB at 15 MiB has returned 0
C9_Witness ==
    /\ BankedReadOk
    /\ call.offset = 15 * MiB /\ call.length = 4 * MiB
    /\ out.length_read = 4 * MiB
    /\ Cardinality(Where(IsBulk)) = 2

\* spi_nor_wait_ready has just returned to the function that called it
WaitReturned == Head(stack) \in {"macronix_quad_waited", "write_sr_cr_waited"}

\* what one poll of the loop saw
PollFailed(p) == p.sr_ret # 0 \/ (p.fsr_read /\ p.fsr_ret # 0)
PollError(p) == IF p.sr_ret # 0 THEN p.sr_ret ELSE p.fsr_ret
PollReady(p) ==
    /\ ~PollFailed(p)
    /\ ~HasBit(p.sr, SR_WIP)
    /\ USE_FSR => (p.fsr_read /\ HasBit(p.fsr, FSR_READY))
PollBusy(p) == ~PollFailed(p) /\ ~PollReady(p)

\* C4: wait_ready returns 0 at the first poll in which WIP is 0 and, in
\* flag-status mode, READY is 1; it returns the negative error at the first
\* poll whose register read fails; it returns timeout when no poll before the
\* deadline reports ready; it never returns 0 from a poll in which WIP is set,
\* even when flag-status READY is 1.
C4_WaitReadyResult ==
    WaitReturned
    => LET n == Len(polls)
       IN  /\ n >= 1
           /\ \A i \in 1..(n - 1) : PollBusy(polls[i])
           /\ \A i \in 1..n : polls[i].t <= loc.timeout
           /\ PollReady(polls[n]) => ret = 0
           /\ PollFailed(polls[n]) => (ret = PollError(polls[n]) /\ ret < 0)
           /\ PollBusy(polls[n]) => (ret = -ETIMEDOUT /\ timeout_elapsed(loc.timeout))
           /\ HasBit(polls[n].sr, SR_WIP) => ret # 0

\* in flag-status mode, a first poll with WIP set and READY set was taken as
\* busy, and a later poll returned 0
C4_Witness ==
    /\ WaitReturned /\ USE_FSR /\ ret = 0
    /\ Len(polls) >= 2
    /\ HasBit(polls[1].sr, SR_WIP) /\ HasBit(polls[1].fsr, FSR_READY)
    /\ PollReady(polls[Len(polls)])

\* C5: wait_ready returns timeout only after a readiness check performed at
\* or after the deadline reported busy, and never without having polled at
\* least once.
C5_LastCheckAfterDeadline ==
    (WaitReturned /\ ret = -ETIMEDOUT)
    => /\ Len(polls) >= 1
       /\ \E i \in 1..Len(polls) : polls[i].end >= loc.timeout /\ PollBusy(polls[i])

\* the vendor's quad enable returned 0 and was called once more, on a flash
\* that keeps the quad bit
QuadTwice ==
    /\ Done("macronix_quad_enable") \/ Done("quad_enable")
    /\ loc.mark >= 0
    /\ dev.quad_ok

QuadRegister == IF call.fn = "macronix_quad_enable" THEN SPI_NOR_OP_READ_SR
                ELSE SPI_NOR_OP_READ_CR

\* C7: for the Macronix and the Spansion-style sequence, a second quad enable
\* directly after a successful first one issues only the single read of the
\* register holding the quad bit, no write-enable and no register write, and
\* returns what that read returned: success when the read succeeds.
C7_QuadEnableIdempotent ==
    QuadTwice
    => /\ Len(log) = loc.mark + 1
       /\ log[Len(log)].opcode = QuadRegister
       /\ log[Len(log)].dir = "in" /\ log[Len(log)].nbytes = 1
       /\ \A i \in (loc.mark + 1)..Len(log) : ~IsWren(log[i]) /\ log[i].dir # "out"
       /\ ret = log[Len(log)].ret
       /\ log[Len(log)].ret = 0 => ret = 0

\* the first Spansion-style call wrote the registers (read, read, write
\* enable, 2-byte write, polls, verifying read), the second only read
C7_Witness ==
    /\ QuadTwice /\ call.fn = "quad_enable" /\ ret = 0
    /\ loc.mark >= 6
    /\ \E i \in 1..loc.mark : log[i].opcode = SPI_NOR_OP_WRSR /\ log[i].nbytes = 2
    /\ Len(log) = loc.mark + 1

IsWrsr(e) == e.kind = "exec" /\ e.opcode = SPI_NOR_OP_WRSR /\ e.dir = "out"
IsReadSr(e) == e.kind = "exec" /\ e.opcode = SPI_NOR_OP_READ_SR /\ e.dir = "in" /\ e.nbytes = 1

\* init has read a Macronix ID, the data bus has 4 lines and the status
\* register read of the quad enable showed the quad bit clear
InitMacronixQuad ==
    /\ call.fn = "init"
    /\ nor_dev.read_op.data_buswidth = 4
    /\ Len(log) >= 2
    /\ log[1].opcode = SPI_NOR_OP_READ_ID /\ log[1].ret = 0 /\ log[1].rval = MACRONIX_ID
    /\ IsReadSr(log[2]) /\ log[2].ret = 0 /\ ~HasBit(log[2].rval, SR_QUAD_EN_MX)

\* the register reads of the polls of the readiness wait
PollReads == Len(polls) + Cardinality({i \in 1..Len(polls) : polls[i].fsr_read})

\* C8: on a Macronix ID with a 4-line data bus and the quad bit clear, init
\* issues in this order write-enable, exactly one 1-byte status write with
\* the quad bit set, a readiness wait and a verifying status read, each as
\* soon as the step before it succeeded, and returns invalid-configuration if
\* the verifying read shows the quad bit still clear.
C8_MacronixQuadSequence ==
    InitMacronixQuad
    => /\ Len(log) >= 3 => IsWren(log[3])
       /\ Len(log) >= 4 => /\ log[3].ret = 0
                           /\ IsWrsr(log[4]) /\ log[4].nbytes = 1
                           /\ HasBit(log[4].val, SR_QUAD_EN_MX)
       /\ Cardinality(Where(IsWrsr)) <= 1
       /\ Cardinality(Where(IsWren)) <= 1
       /\ Len(log) >= 5 => (log[4].ret = 0 /\ IsReadSr(log[5]))
       /\ At("done")
          => /\ Len(log) >= 3
             /\ log[3].ret = 0 => Len(log) >= 4
             /\ (Len(log) >= 4 /\ log[4].ret = 0) => Len(polls) >= 1
             /\ (Len(polls) >= 1 /\ polls[Len(polls)].res = 0)
                => /\ Len(log) >= 5 + PollReads
                   /\ IsReadSr(log[5 + PollReads])
                   /\ log[5 + PollReads].t >= polls[Len(polls)].end
                   /\ (log[5 + PollReads].ret = 0
                       /\ ~HasBit(log[5 + PollReads].rval, SR_QUAD_EN_MX))
                      => ret = -EINVAL
             /\ ret = 0 => /\ Len(polls) >= 1 /\ polls[Len(polls)].res = 0
                           /\ HasBit(log[5 + PollReads].rval, SR_QUAD_EN_MX)

\* all four steps were issued, the wait took two polls, the verifying read
\* showed the quad bit clear, and init returned -EINVAL
C8_Witness ==
    /\ InitMacronixQuad /\ At("done") /\ ret = -EINVAL
    /\ Len(polls) >= 2 /\ polls[Len(polls)].res = 0
    /\ Len(log) = 5 + PollReads
    /\ log[Len(log)].ret = 0 /\ ~HasBit(log[Len(log)].rval, SR_QUAD_EN_MX)

\* the 2-byte opcode of a reset command: op in the high byte
IsResetCmd(e, op) ==
    /\ e.kind = "exec" /\ e.cmd_nbytes = 2 /\ e.nbytes = 0
    /\ e.opcode \div 256 = op
    /\ e.opcode % 256
         = (IF nor_dev.read_op.cmd_opcode \div 256 = nor_dev.read_op.cmd_opcode % 256
            THEN op ELSE 255 - op)

\* C10: reset issues no transaction and returns success when the opcode of
\* the read template is not 2 bytes wide.  Otherwise it issues
\* software-reset-enable and then software-reset, each a 2-byte opcode whose
\* low byte repeats the high byte when the two bytes of the read opcode are
\* equal and is its bitwise inverse otherwise, and software-reset is not
\* issued when software-reset-enable fails.
C10_ResetCommands ==
    Done("reset")
    => IF nor_dev.read_op.cmd_nbytes # 2
       THEN log = <<>> /\ ret = 0
       ELSE /\ Len(log) >= 1
            /\ IsResetCmd(log[1], SPI_NOR_OP_SRSTEN)
            /\ log[1].ret # 0 => (Len(log) = 1 /\ ret = log[1].ret)
            /\ log[1].ret = 0 => /\ Len(log) = 2
                                 /\ IsResetCmd(log[2], SPI_NOR_OP_SRST)
                                 /\ ret = log[2].ret

\* both commands were issued in the repeated form
C10_Witness ==
    /\ Done("reset") /\ ret = 0
    /\ nor_dev.read_op.cmd_nbytes = 2
    /\ nor_dev.read_op.cmd_opcode \div 256 = nor_dev.read_op.cmd_opcode % 256
    /\ Len(log) = 2
    /\ log[1].opcode = (SPI_NOR_OP_SRSTEN * 256) + SPI_NOR_OP_SRSTEN
    /\ log[2].opcode = (SPI_NOR_OP_SRST * 256) + SPI_NOR_OP_SRST

\* a quad enable of the vendor has returned (a first or a second call)
QuadDone == Done("macronix_quad_enable") \/ Done("quad_enable")

QuadBit == IF call.fn = "macronix_quad_enable" THEN SR_QUAD_EN_MX ELSE CR_QUAD_EN_SPAN

\* C11: a quad-enable sequence returns invalid-configuration only when its
\* verification read succeeded and showed the quad bit clear; when a transport
\* transaction of the sequence fails, the sequence returns the transport's
\* error code.
C11_InvalidConfigurationDistinct ==
    QuadDone
    => /\ FirstError(log) # 0 => ret = FirstError(log)
       /\ ret = -EINVAL
          => /\ log[Len(log)].opcode = QuadRegister
             /\ log[Len(log)].ret = 0
             /\ ~HasBit(log[Len(log)].rval, QuadBit)

\* read has left its loop with every bulk transaction done, and the
\* clean_bar after the loop failed
FinalCleanFailed ==
    /\ Done("read") /\ USE_BANK
    /\ loc.length = 0
    /\ \A i \in Where(IsBulk) : log[i].ret = 0
    /\ FirstError(log) # 0

\* C12: with banking enabled, when every bulk transaction of a read succeeds
\* but the clean_bank after the loop fails, read returns clean_bank's error
\* and the bytes-read output already equals the full requested length.
C12_FinalCleanErrorReported ==
    FinalCleanFailed
    => /\ ret = FirstError(log)
       /\ ret = log[Len(log)].ret
       /\ IsWren(log[Len(log)]) \/ (IsBankWrite(log[Len(log)]) /\ log[Len(log)].val = 0)
       /\ out.length_read = call.length

\* a read over two windows whose data was all transferred, and the
\* bank-select write of 0 after the loop failed
C12_Witness ==
    /\ FinalCleanFailed
    /\ Cardinality(Where(IsBulk)) = 2
    /\ IsBankWrite(log[Len(log)]) /\ log[Len(log)].ret # 0
    /\ ret < 0
    /\ out.length_read = call.length

\* C13: init attempts the octal-DTR enable only when the command bus width is
\* 8 lines and the opcode width is 2 bytes; with a 2-byte opcode and a vendor
\* ID other than Macronix it returns operation-not-supported, having issued
\* no transaction after the ID read.
C13_OctalOnlyWhenSupported ==
    (call.fn = "init" /\ log # <<>>)
    => /\ (\E i \in 1..Len(log) : log[i].opcode = SPI_NOR_OP_WR_CR2)
          => (nor_dev.read_op.cmd_buswidth = 8 /\ nor_dev.read_op.cmd_nbytes = 2)
       /\ (nor_dev.read_op.cmd_nbytes = 2 /\ Len(log) >= 2)
          => /\ nor_dev.read_op.cmd_buswidth = 8
             /\ log[1].ret = 0 /\ log[1].rval = MACRONIX_ID
             /\ IsWren(log[2])
       /\ (nor_dev.read_op.cmd_buswidth = 8 /\ nor_dev.read_op.cmd_nbytes # 2)
          => \A i \in 1..Len(log) : ~IsWren(log[i])
       /\ (At("done") /\ nor_dev.read_op.cmd_nbytes = 2
             /\ log[1].ret = 0 /\ log[1].rval # MACRONIX_ID)
          => (ret = -EOPNOTSUPP /\ Len(log) = 1)

\* init on an octal DTR board read a Spansion ID and returned -EOPNOTSUPP
C13_Witness ==
    /\ Done("init")
    /\ nor_dev.read_op.cmd_nbytes = 2 /\ nor_dev.read_op.cmd_buswidth = 8
    /\ Len(log) = 1 /\ log[1].ret = 0 /\ log[1].rval = SPANSION_ID
    /\ ret = -EOPNOTSUPP

\* C14: every successful init hands both of its results to the caller: the
\* capacity output equals the size the platform hook put in the descriptor,
\* and the erase-granularity output is written.
C14_InitOutputsWritten ==
    (Done("init") /\ ret = 0)
    => /\ out.size_set /\ out.size = nor_dev.size /\ out.size = call.plat.size
       /\ out.erase_size_set

\* C15: after a successful init with banking enabled, whenever read,
\* write_bank or clean_bank returns, the cached selected_bank equals the bank
\* register of the device, for every pattern of transport failures.
C15_CacheMatchesDevice ==
    (inited /\ USE_BANK /\ At("done") /\ call.fn \in {"read", "write_bar", "clean_bar"})
    => nor_dev.selected_bank = dev.bank

\* the cached bank when the write_bar call in progress started: the second
\* call starts with the bank the first one selected
WriteBarCacheBefore == IF loc.mark >= 0 THEN TargetBank(call.offset) ELSE call.bank0

\* the transactions of the write_bar call in progress
WriteBarLog == {i \in 1..Len(log) : i > loc.mark}

\* C16: when write_bank fails at its write-enable or at its bank-select
\* register write, the cached selected_bank keeps the value it had before the
\* call; the cache changes only after the bank-select write has succeeded.
C16_WriteBarFailureKeepsCache ==
    call.fn = "write_bar"
    => /\ (At("done") /\ ret # 0) => nor_dev.selected_bank = WriteBarCacheBefore
       /\ nor_dev.selected_bank # WriteBarCacheBefore
          => \E i \in WriteBarLog : IsBankWrite(log[i]) /\ log[i].ret = 0
                                    /\ log[i].val = nor_dev.selected_bank

\* write_bar for a bank other than the cached one failed at its bank-select
\* write, after a write-enable that succeeded
C16_Witness ==
    /\ Done("write_bar") /\ ret # 0 /\ loc.mark = -1
    /\ Len(log) = 2
    /\ IsWren(log[1]) /\ log[1].ret = 0
    /\ IsBankWrite(log[2]) /\ log[2].ret = ret
    /\ TargetBank(call.offset) # call.bank0
    /\ nor_dev.selected_bank = call.bank0

IsBankRead(e) == e.kind = "exec" /\ e.opcode \in BankReadOps /\ e.dir = "in"

\* the quad enable that init ran before transaction i, if it had to run one,
\* ended with a read that showed the quad bit set
QuadEnabledBefore(i) ==
    /\ (nor_dev.read_op.data_buswidth = 4 /\ log[1].rval = MACRONIX_ID)
       => (IsReadSr(log[i - 1]) /\ HasBit(log[i - 1].rval, SR_QUAD_EN_MX))
    /\ (nor_dev.read_op.data_buswidth = 4 /\ log[1].rval = SPANSION_ID)
       => (log[i - 1].opcode = SPI_NOR_OP_READ_CR
           /\ HasBit(log[i - 1].rval, CR_QUAD_EN_SPAN))

\* C17: init issues the bank-read transaction only as its last transaction
\* and only when banking is enabled, the read opcode width is not 2 bytes, and
\* the ID read and any quad-enable sequence succeeded; with a 2-byte opcode
\* width init returns the octal-enable result directly and issues no
\* bank-read and no quad-enable transaction.
C17_BankReadLastAndGuarded ==
    (call.fn = "init" /\ log # <<>>)
    => /\ \A i \in 1..Len(log) :
            IsBankRead(log[i])
            => /\ i = Len(log) /\ i >= 2
               /\ USE_BANK
               /\ nor_dev.read_op.cmd_nbytes # 2
               /\ \A j \in 1..(i - 1) : log[j].ret = 0
               /\ log[1].opcode = SPI_NOR_OP_READ_ID
               /\ QuadEnabledBefore(i)
       /\ nor_dev.read_op.cmd_nbytes = 2
          => /\ \A i \in 1..Len(log) :
                   log[i].opcode \in {SPI_NOR_OP_READ_ID, SPI_NOR_OP_WREN, SPI_NOR_OP_WR_CR2}
             /\ (At("done") /\ Len(log) >= 2)
                => (ret = log[Len(log)].ret /\ ret = FirstError(log))

\* init on a quad board with banking ran the whole Macronix or Spansion-style
\* sequence and then read the bank register, as its last transaction
C17_Witness ==
    /\ Done("init") /\ ret = 0 /\ USE_BANK
    /\ nor_dev.read_op.data_buswidth = 4
    /\ Len(log) >= 7
    /\ IsBankRead(log[Len(log)])
    /\ \E i \in 1..Len(log) : IsWrsr(log[i])

\* C18: across any sequence of read calls after a successful init with
\* banking enabled, and for every pattern of transport failures in earlier
\* calls, every bulk read transaction is issued while the device's bank
\* register equals the bank of the transaction's address.
C18_BulkReadsFromSelectedBank ==
    (call.fn = "read" /\ USE_BANK)
    => \A i \in Where(IsBulk) : log[i].devbank = log[i].addr \div BANK_SIZE

\* the bank windows the byte range of the read in progress touches
WindowsTouched ==
    IF call.length = 0 THEN 0
    ELSE ((call.offset + call.length - 1) \div BANK_SIZE) - (call.offset \div BANK_SIZE) + 1

\* every bulk transaction has at least one byte, a bulk transaction that
\* failed is the last one, the cursor has advanced by what the transactions
\* that succeeded transferred, and there are no more bulk transactions than
\* bank windows touched
ReadProgress ==
    call.fn = "read"
    => /\ \A i \in Where(IsBulk) : log[i].nbytes >= 1
       /\ \A i \in Where(IsBulk) : log[i].ret # 0 => \A j \in Where(IsBulk) : j <= i
       /\ loc.length >= 0 /\ loc.length <= call.length
       /\ loc.length + out.length_read = call.length
       /\ Cardinality(Where(IsBulk)) <= WindowsTouched

\* C19: read terminates for every offset, every length and every pattern of
\* transport outcomes: each loop iteration returns an error or transfers at
\* least one byte, so the number of bulk transactions is at most the number
\* of bank windows touched.
C19_ReadTerminates ==
    /\ []ReadProgress
    /\ (call.fn = "read") ~> (Done("read"))

\* a read over three windows has returned after three bulk transactions
C19_Witness ==
    /\ Done("read") /\ USE_BANK
    /\ WindowsTouched = 3
    /\ Cardinality(Where(IsBulk)) = 3
    /\ loc.length = 0

\* the address after the bulk transactions of l that succeeded, when they
\* transferred one contiguous range that starts at a; -1 when they did not
RECURSIVE TransferredTo(_, _)
TransferredTo(l, a) ==
    IF l = <<>> THEN a
    ELSE IF IsBulk(Head(l)) /\ Head(l).ret = 0
    THEN (IF Head(l).addr = a THEN TransferredTo(Tail(l), a + Head(l).nbytes) ELSE -1)
    ELSE TransferredTo(Tail(l), a)

\* C20: when read returns an error, its bytes-read output equals the sum of
\* the lengths of the bulk transactions that succeeded in that call, the
\* length of the contiguous prefix already transferred; it is 0 when the
\* first bank-select or the first bulk transaction fails, and on success it
\* equals the requested length.
C20_LengthReadIsPrefix ==
    Done("read")
    => /\ TransferredTo(log, call.offset) # -1
       /\ out.length_read = TransferredTo(log, call.offset) - call.offset
       /\ (\A i \in Where(IsBulk) : log[i].ret # 0) => out.length_read = 0
       /\ ret = 0 => out.length_read = call.length

\* a banked read whose first bulk transaction succeeded and whose second
\* failed: bytes read is the length of the first
C20_Witness ==
    /\ Done("read") /\ USE_BANK /\ ret # 0
    /\ Cardinality(Where(IsBulk)) = 2
    /\ \E i \in Where(IsBulk), j \in Where(IsBulk) :
          /\ i < j /\ log[i].ret = 0 /\ log[j].ret = ret
          /\ out.length_read = log[i].nbytes
    /\ out.length_read > 0 /\ out.length_read < call.length
====
